---------------------------- MODULE Spec2Model ----------------------------
(***************************************************************************)
(* The note store of src/main.rs: AppState {id, data} behind one           *)
(* tokio::sync::Mutex, and the four axum handlers create_note,             *)
(* delete_note, update_note and read_note that lock it.                    *)
(*                                                                         *)
(* Every handler is modelled statement by statement: a handler task        *)
(* begins, awaits the lock, runs its statements while it owns the guard    *)
(* and gives the lock back when the guard is dropped at its return.        *)
(*                                                                         *)
(* The counter is a u32.  TLC's integers are 32-bit signed and cannot hold *)
(* 2^32 - 1, so the counter's width is scaled: IdMax stands for u32::MAX   *)
(* and every u32 value (the counter, the keys, the ids of the request      *)
(* paths) ranges over 0..IdMax.  `state.id + 1` at IdMax overflows: a      *)
(* build with overflow checks (debug) panics there, a build without them   *)
(* (release) wraps to 0.  The build is fixed when the process starts.      *)
(***************************************************************************)
EXTENDS Integers, FiniteSets

\* Stand-in for u32::MAX, the largest value of AppState.id and of a key.
IdMax == 2

\* Number of handler tasks the runtime runs concurrently.
NumHandlers == 2

\* Number of requests that arrive in one run.
MaxCalls == 5

\* Number of requests that arrive in one run of FairSpec.
MaxLiveCalls == 3

Handlers == 1..NumHandlers

\* The values of a u32: the counter, the keys of the map, Path<u32>.
U32 == 0..IdMax

\* struct Note { title, note } and its constructor.
Note(title, note) == [title |-> title, note |-> note]

\* The request bodies a client sends.
Notes == {Note("t", "a"), Note("t", "b")}

\* The routes of app() that reach the store.
Ops == {"create", "read", "update", "delete"}

VARIABLES
    overflow_checks, \* the build: TRUE panics on u32 overflow, FALSE wraps
    id,              \* AppState.id
    data,            \* AppState.data: a function from the keys present to Notes
    permits,         \* the Mutex: 1 when free, 0 when a guard is out
    pc,              \* per handler task: where it stands
    req,             \* per handler task: the request it serves
    new_id,          \* create_note's local new_id
    note,            \* read_note's local note (the clone), {} when unset
    resp,            \* per handler task: the response it returned
    \* ---- history variables: they record what happened, no action reads them
    absId,           \* the counter of the atomic sequential store
    absData,         \* the mapping of the atomic sequential store
    absResp,         \* per task: the sequential store's response to its call
    issued,          \* ids returned by the Creates that have returned
    seen,            \* per Create: 1 + the largest id issued when it began, or 0
    created,         \* per key: notes of returned Creates, no Update/Delete since
    pend,            \* per reader: created[key] when it began, unless undone
    deleted,         \* per key: a Delete returned and nothing was inserted since
    miss,            \* per reader: deleted[key] when it began, unless undone
    updated,         \* per key: the note of the last Update, no other write since
    upd,             \* per reader: updated[key] when it looked the key up
    wrapped,         \* the counter has wrapped around past IdMax
    scen,            \* how far the run has followed the scenario of the tests
    ahead,           \* the keys an Update wrote above the counter, no other write since
    replaced,        \* per Create: the note its insert replaced, if an Update
                     \* had written it above the counter
    nCreated,        \* the Creates that have returned an id
    calls            \* the requests that are still to arrive

progVars == <<overflow_checks, id, data, permits, pc, req, new_id, note, resp>>
histVars == <<absId, absData, absResp, issued, seen, created,
              pend, deleted, miss, updated, upd, wrapped, calls>>
monVars == <<scen, ahead, replaced, nCreated>>
vars == <<progVars, histVars, monVars>>

--------------------------------------------------------------------------
\* HashMap<u32, Note>

EmptyMap == [k \in {} |-> Note("", "")]

\* HashMap::insert: the entry at k becomes n, present or not before.
Insert(d, k, n) == [x \in (DOMAIN d) \cup {k} |-> IF x = k THEN n ELSE d[x]]

\* HashMap::remove: the entry at k goes, if there is one.
Remove(d, k) == [x \in (DOMAIN d) \ {k} |-> d[x]]

\* HashMap::get(..).clone(): an Option, {} for None and {n} for Some(n).
Get(d, k) == IF k \in DOMAIN d THEN {d[k]} ELSE {}

--------------------------------------------------------------------------
\* The responses of the handlers.

NoResp == [kind |-> "none", id |-> 0, note |-> {}]

\* Json(format!("Note created with id: {}", new_id))
CreatedResp(i) == [kind |-> "created", id |-> i, note |-> {}]

\* Json(format!("User deleted with id: {}", id))
DeletedResp(i) == [kind |-> "deleted", id |-> i, note |-> {}]

\* Json("Updated note".into())
UpdatedResp == [kind |-> "updated", id |-> 0, note |-> {}]

\* Ok(Json(note))
NoteResp(n) == [kind |-> "note", id |-> 0, note |-> n]

\* Err("Note not found"), the early return of `?`
NotFoundResp == [kind |-> "notfound", id |-> 0, note |-> {}]

\* The task unwound: `state.id + 1` overflowed in a build that checks.
PanicResp == [kind |-> "panic", id |-> 0, note |-> {}]

NoReq == [op |-> "none", id |-> 0, note |-> {}]

--------------------------------------------------------------------------
\* The statements of the handlers, as functions of what they read.

\* Mutants of LockReady: a lock that never makes a caller wait, and a permit
\* test that is off by one.
LockReadyAlways(s) == TRUE
LockReadyOffByOne(s) == s >= 0

\* `state.lock().await` completes only when the Mutex has a permit.
LockReady(s) == s > 0

\* `state.id + 1` on a u32: the mathematical sum, and whether it fits.
Overflows(i) == i + 1 > IdMax
WrapU32(x) == x % (IdMax + 1)

\* Mutant of CreateNewId: the counter's old value is handed out (post-increment).
CreateNewIdPostIncrement(i) == WrapU32(i)

\* `let new_id = state.id + 1;`
CreateNewId(i) == WrapU32(i + 1)

\* Mutant of CreateData: entry(new_id).or_insert(payload), which keeps an entry
\* that is already there.
CreateDataIfAbsent(d, k, n) == IF k \in DOMAIN d THEN d ELSE Insert(d, k, n)

\* create_note: state.data.insert(new_id, payload)
CreateData(d, k, n) == Insert(d, k, n)

\* Mutant of CreateCounter: the store of the counter is forgotten.
CreateCounterStale(i, k) == i

\* create_note: state.id = new_id
CreateCounter(i, k) == k

\* Mutants of DeleteData: a lookup where the removal should be, and a clear().
DeleteDataKeeps(d, k) == d
DeleteDataClears(d, k) == [x \in {} |-> d[x]]

\* delete_note: state.data.remove(&id)
DeleteData(d, k) == Remove(d, k)

\* Mutants of UpdateData: an update that refuses a key that is not there, and
\* one that replaces the whole map by the one entry.
UpdateDataIfPresent(d, k, n) == IF k \in DOMAIN d THEN Insert(d, k, n) ELSE d
UpdateDataAlone(d, k, n) == [x \in {k} |-> n]

\* update_note: state.data.insert(id, payload)
UpdateData(d, k, n) == Insert(d, k, n)

\* Mutant of ReadLookup: unwrap_or_default() where ok_or(..)? should be.
ReadLookupOrDefault(d, k) == IF k \in DOMAIN d THEN {d[k]} ELSE {Note("", "")}

\* read_note: state.data.get(&id) ... .clone()
ReadLookup(d, k) == Get(d, k)

\* The statements that run with the guard `state` alive.
HeldPcs == {"c58", "c59", "c60", "c61", "d66", "d67", "u76", "u77", "r85", "r86"}

Holders == {p \in Handlers : pc[p] \in HeldPcs}

\* 1 + the largest id of a set of ids, 0 for the empty set.
Top(S) == IF S = {} THEN 0 ELSE 1 + (CHOOSE a \in S : \A b \in S : b <= a)

\* The readers of key k that have begun and not yet looked k up.
WaitingReaders(k) ==
    {q \in Handlers : pc[q] = "lock" /\ req[q].op = "read" /\ req[q].id = k}

--------------------------------------------------------------------------
\* The scenario of tests::create, tests::update and tests::delete, followed by
\* a read: on the fresh store Create(n1), then Update(1, n2), then Delete(1),
\* then Read(1), each call begun after the one before returned and no other
\* call ever made.  scen.step is 0 on the fresh store, odd while the 1st, 2nd,
\* 3rd, 4th call of the scenario runs, even when it has returned, and ScenOff
\* once the run has left the scenario.

ScenOff == [step |-> 9, n1 |-> {}, n2 |-> {}]

ScenBegin(sc, op, k, n) ==
    CASE sc.step = 0 /\ op = "create" -> [step |-> 1, n1 |-> {n}, n2 |-> {}]
      [] sc.step = 2 /\ op = "update" /\ k = 1 -> [sc EXCEPT !.step = 3, !.n2 = {n}]
      [] sc.step = 4 /\ op = "delete" /\ k = 1 -> [sc EXCEPT !.step = 5]
      [] sc.step = 6 /\ op = "read" /\ k = 1 -> [sc EXCEPT !.step = 7]
      [] OTHER -> ScenOff

ScenReturn(sc) == IF sc.step \in {1, 3, 5, 7} THEN [sc EXCEPT !.step = @ + 1] ELSE sc

--------------------------------------------------------------------------
\* The atomic sequential store: each handler's body run in one step.

SeqCreate(i, d, n) ==
    IF Overflows(i) /\ overflow_checks
    THEN [id |-> i, data |-> d, resp |-> PanicResp]
    ELSE [id |-> WrapU32(i + 1), data |-> Insert(d, WrapU32(i + 1), n),
          resp |-> CreatedResp(WrapU32(i + 1))]

SeqDelete(i, d, k) == [id |-> i, data |-> Remove(d, k), resp |-> DeletedResp(k)]

SeqUpdate(i, d, k, n) == [id |-> i, data |-> Insert(d, k, n), resp |-> UpdatedResp]

SeqRead(i, d, k) ==
    [id |-> i, data |-> d,
     resp |-> IF k \in DOMAIN d THEN NoteResp({d[k]}) ELSE NotFoundResp]

SeqApply(i, d, r) ==
    CASE r.op = "create" -> SeqCreate(i, d, CHOOSE n \in r.note : TRUE)
      [] r.op = "delete" -> SeqDelete(i, d, r.id)
      [] r.op = "update" -> SeqUpdate(i, d, r.id, CHOOSE n \in r.note : TRUE)
      [] r.op = "read"   -> SeqRead(i, d, r.id)

--------------------------------------------------------------------------
\* main: Arc::new(Mutex::new(AppState::default())), no handler running.

Fresh ==
    /\ overflow_checks \in BOOLEAN
    /\ id = 0
    /\ data = EmptyMap
    /\ permits = 1
    /\ pc = [p \in Handlers |-> "idle"]
    /\ req = [p \in Handlers |-> NoReq]
    /\ new_id = [p \in Handlers |-> 0]
    /\ note = [p \in Handlers |-> {}]
    /\ resp = [p \in Handlers |-> NoResp]
    /\ absId = 0
    /\ absData = EmptyMap
    /\ absResp = [p \in Handlers |-> NoResp]
    /\ issued = {}
    /\ seen = [p \in Handlers |-> 0]
    /\ created = [k \in U32 |-> {}]
    /\ pend = [p \in Handlers |-> {}]
    /\ deleted = [k \in U32 |-> FALSE]
    /\ miss = [p \in Handlers |-> FALSE]
    /\ updated = [k \in U32 |-> {}]
    /\ upd = [p \in Handlers |-> {}]
    /\ wrapped = FALSE
    /\ scen = [step |-> 0, n1 |-> {}, n2 |-> {}]
    /\ ahead = {}
    /\ replaced = [p \in Handlers |-> {}]
    /\ nCreated = 0

Init == Fresh /\ calls = MaxCalls

\* The same start, with fewer requests to come.
LiveInit == Fresh /\ calls = MaxLiveCalls

--------------------------------------------------------------------------
\* No response is waiting to be sent.  A returned response is sent before the
\* model looks at another task: finish(p) is always possible once p has
\* returned and touches only p's own variables, so it commutes with every
\* step of every other task and taking it first loses no state of the store.
Quiet == \A q \in Handlers : pc[q] # "done"

\* A request arrives and axum starts its handler; the handler's first
\* statement, `state.lock().await`, is still ahead of it.

begin(p) ==
    /\ pc[p] = "idle"
    /\ Quiet
    /\ calls > 0
    /\ calls' = calls - 1
    /\ \E op \in Ops, k \in U32, n \in Notes :
          /\ req' = [req EXCEPT ![p] =
                        [op   |-> op,
                         id   |-> IF op = "create" THEN 0 ELSE k,
                         note |-> IF op \in {"create", "update"} THEN {n} ELSE {}]]
          /\ seen' = [seen EXCEPT ![p] = IF op = "create" THEN Top(issued) ELSE 0]
          /\ pend' = [pend EXCEPT ![p] = IF op = "read" THEN created[k] ELSE {}]
          /\ miss' = [miss EXCEPT ![p] = IF op = "read" THEN deleted[k] ELSE FALSE]
          /\ scen' = ScenBegin(scen, op, k, n)
    /\ pc' = [pc EXCEPT ![p] = "lock"]
    /\ UNCHANGED <<overflow_checks, id, data, permits, new_id, note, resp>>
    /\ UNCHANGED <<absId, absData, absResp, issued, created,
                   deleted, updated, upd, wrapped>>
    /\ UNCHANGED <<replaced, ahead, nCreated>>

\* `let state = state.lock().await;` (lines 57, 65, 75, 84): the handler takes
\* the Mutex's permit.  The sequential store serves the call at this moment.
lock(p) ==
    /\ pc[p] = "lock"
    /\ Quiet
    /\ LockReady(permits)
    /\ permits' = permits - 1
    /\ pc' = [pc EXCEPT ![p] = CASE req[p].op = "create" -> "c58"
                                 [] req[p].op = "delete" -> "d66"
                                 [] req[p].op = "update" -> "u76"
                                 [] req[p].op = "read"   -> "r85"]
    /\ LET s == SeqApply(absId, absData, req[p])
       IN  /\ absId' = s.id
           /\ absData' = s.data
           /\ absResp' = [absResp EXCEPT ![p] = s.resp]
    /\ UNCHANGED <<overflow_checks, id, data, req, new_id, note, resp>>
    /\ UNCHANGED <<issued, seen, created, pend, deleted, miss, updated,
                   upd, wrapped, calls>>
    /\ UNCHANGED monVars

\* Mutant of Release: the guard is leaked (mem::forget) and the permit with it.
ReleaseLeaks == permits' = permits

\* The guard `state` is dropped: the Mutex has its permit again.
Release == permits' = permits + 1

--------------------------------------------------------------------------
\* create_note

\* `let new_id = state.id + 1;`  At u32::MAX the sum does not fit: a build
\* with overflow checks panics, the task unwinds and drops the guard; a
\* build without them wraps.
create_new_id(p) ==
    /\ pc[p] = "c58"
    /\ Quiet
    /\ IF Overflows(id) /\ overflow_checks
       THEN /\ resp' = [resp EXCEPT ![p] = PanicResp]
            /\ pc' = [pc EXCEPT ![p] = "done"]
            /\ Release
            /\ scen' = ScenReturn(scen)
            /\ UNCHANGED <<new_id, wrapped>>
       ELSE /\ new_id' = [new_id EXCEPT ![p] = CreateNewId(id)]
            /\ pc' = [pc EXCEPT ![p] = "c59"]
            /\ wrapped' = (wrapped \/ Overflows(id))
            /\ UNCHANGED <<resp, permits, scen>>
    /\ UNCHANGED <<overflow_checks, id, data, req, note>>
    /\ UNCHANGED <<absId, absData, absResp, issued, seen,
                   created, pend, deleted, miss, updated, upd, calls>>
    /\ UNCHANGED <<replaced, ahead, nCreated>>

\* `state.data.insert(new_id, payload);`
create_insert(p) ==
    /\ pc[p] = "c59"
    /\ Quiet
    /\ LET k == new_id[p]
       IN  /\ data' = CreateData(data, k, CHOOSE n \in req[p].note : TRUE)
           /\ deleted' = [deleted EXCEPT ![k] = FALSE]
           /\ miss' = [q \in Handlers |->
                          IF q \in WaitingReaders(k) THEN FALSE ELSE miss[q]]
           /\ updated' = [updated EXCEPT ![k] = {}]
           /\ replaced' = [replaced EXCEPT ![p] =
                              IF k \in ahead THEN updated[k] ELSE {}]
           /\ ahead' = ahead \ {k}
    /\ pc' = [pc EXCEPT ![p] = "c60"]
    /\ UNCHANGED <<overflow_checks, id, permits, req, new_id, note, resp>>
    /\ UNCHANGED <<absId, absData, absResp, issued, seen,
                   created, pend, upd, wrapped, calls>>
    /\ UNCHANGED <<scen, nCreated>>

\* `state.id = new_id;`
create_store_id(p) ==
    /\ pc[p] = "c60"
    /\ Quiet
    /\ id' = CreateCounter(id, new_id[p])
    /\ pc' = [pc EXCEPT ![p] = "c61"]
    /\ UNCHANGED <<overflow_checks, data, permits, req, new_id, note, resp>>
    /\ UNCHANGED histVars
    /\ UNCHANGED monVars

\* `Json(format!("Note created with id: {}", new_id))` and the end of the body.
create_return(p) ==
    /\ pc[p] = "c61"
    /\ Quiet
    /\ resp' = [resp EXCEPT ![p] = CreatedResp(new_id[p])]
    /\ pc' = [pc EXCEPT ![p] = "done"]
    /\ Release
    /\ issued' = issued \cup {new_id[p]}
    /\ created' = [created EXCEPT ![new_id[p]] = @ \cup req[p].note]
    /\ UNCHANGED <<overflow_checks, id, data, req, new_id, note>>
    /\ UNCHANGED <<absId, absData, absResp, seen, pend, deleted, miss,
                   updated, upd, wrapped, calls>>
    /\ scen' = ScenReturn(scen)
    /\ nCreated' = nCreated + 1
    /\ UNCHANGED <<replaced, ahead>>

create_note(p) ==
    \/ create_new_id(p)
    \/ create_insert(p)
    \/ create_store_id(p)
    \/ create_return(p)

--------------------------------------------------------------------------
\* delete_note

\* `state.data.remove(&id);`
delete_remove(p) ==
    /\ pc[p] = "d66"
    /\ Quiet
    /\ LET k == req[p].id
       IN  /\ data' = DeleteData(data, k)
           /\ created' = [created EXCEPT ![k] = {}]
           /\ pend' = [q \in Handlers |->
                          IF q \in WaitingReaders(k) THEN {} ELSE pend[q]]
           /\ updated' = [updated EXCEPT ![k] = {}]
           /\ ahead' = ahead \ {k}
    /\ pc' = [pc EXCEPT ![p] = "d67"]
    /\ UNCHANGED <<overflow_checks, id, permits, req, new_id, note, resp>>
    /\ UNCHANGED <<absId, absData, absResp, issued, seen,
                   deleted, miss, upd, wrapped, calls>>
    /\ UNCHANGED <<scen, replaced, nCreated>>

\* `Json(format!("User deleted with id: {}", id))` and the end of the body.
delete_return(p) ==
    /\ pc[p] = "d67"
    /\ Quiet
    /\ resp' = [resp EXCEPT ![p] = DeletedResp(req[p].id)]
    /\ pc' = [pc EXCEPT ![p] = "done"]
    /\ Release
    /\ deleted' = [deleted EXCEPT ![req[p].id] = TRUE]
    /\ UNCHANGED <<overflow_checks, id, data, req, new_id, note>>
    /\ UNCHANGED <<absId, absData, absResp, issued, seen,
                   created, pend, miss, updated, upd, wrapped, calls>>
    /\ scen' = ScenReturn(scen)
    /\ UNCHANGED <<replaced, ahead, nCreated>>

delete_note(p) ==
    \/ delete_remove(p)
    \/ delete_return(p)

--------------------------------------------------------------------------
\* update_note

\* `state.data.insert(id, payload);`
update_insert(p) ==
    /\ pc[p] = "u76"
    /\ Quiet
    /\ LET k == req[p].id
       IN  /\ data' = UpdateData(data, k, CHOOSE n \in req[p].note : TRUE)
           /\ created' = [created EXCEPT ![k] = {}]
           /\ pend' = [q \in Handlers |->
                          IF q \in WaitingReaders(k) THEN {} ELSE pend[q]]
           /\ deleted' = [deleted EXCEPT ![k] = FALSE]
           /\ miss' = [q \in Handlers |->
                          IF q \in WaitingReaders(k) THEN FALSE ELSE miss[q]]
           /\ updated' = [updated EXCEPT ![k] = req[p].note]
           /\ ahead' = IF k > id THEN ahead \cup {k} ELSE ahead \ {k}
    /\ pc' = [pc EXCEPT ![p] = "u77"]
    /\ UNCHANGED <<overflow_checks, id, permits, req, new_id, note, resp>>
    /\ UNCHANGED <<absId, absData, absResp, issued, seen, upd,
                   wrapped, calls>>
    /\ UNCHANGED <<scen, replaced, nCreated>>

\* `Json("Updated note".into())` and the end of the body.
update_return(p) ==
    /\ pc[p] = "u77"
    /\ Quiet
    /\ resp' = [resp EXCEPT ![p] = UpdatedResp]
    /\ pc' = [pc EXCEPT ![p] = "done"]
    /\ Release
    /\ UNCHANGED <<overflow_checks, id, data, req, new_id, note>>
    /\ UNCHANGED histVars
    /\ scen' = ScenReturn(scen)
    /\ UNCHANGED <<replaced, ahead, nCreated>>

update_note(p) ==
    \/ update_insert(p)
    \/ update_return(p)

--------------------------------------------------------------------------
\* read_note

\* `let note = state.data.get(&id).ok_or("Note not found")?.clone();`
\* None leaves the function through `?` at once, dropping the guard.
read_get(p) ==
    /\ pc[p] = "r85"
    /\ Quiet
    /\ LET found == ReadLookup(data, req[p].id)
       IN  IF found = {}
           THEN /\ resp' = [resp EXCEPT ![p] = NotFoundResp]
                /\ pc' = [pc EXCEPT ![p] = "done"]
                /\ Release
                /\ scen' = ScenReturn(scen)
                /\ UNCHANGED note
           ELSE /\ note' = [note EXCEPT ![p] = found]
                /\ pc' = [pc EXCEPT ![p] = "r86"]
                /\ UNCHANGED <<resp, permits, scen>>
    /\ upd' = [upd EXCEPT ![p] = updated[req[p].id]]
    /\ UNCHANGED <<overflow_checks, id, data, req, new_id>>
    /\ UNCHANGED <<absId, absData, absResp, issued, seen,
                   created, pend, deleted, miss, updated, wrapped, calls>>
    /\ UNCHANGED <<replaced, ahead, nCreated>>

\* `Ok(Json(note))` and the end of the body.
read_return(p) ==
    /\ pc[p] = "r86"
    /\ Quiet
    /\ resp' = [resp EXCEPT ![p] = NoteResp(note[p])]
    /\ pc' = [pc EXCEPT ![p] = "done"]
    /\ Release
    /\ UNCHANGED <<overflow_checks, id, data, req, new_id, note>>
    /\ UNCHANGED histVars
    /\ scen' = ScenReturn(scen)
    /\ UNCHANGED <<replaced, ahead, nCreated>>

read_note(p) ==
    \/ read_get(p)
    \/ read_return(p)

--------------------------------------------------------------------------
\* The response is sent and the task ends; its slot serves the next request.

finish(p) ==
    /\ pc[p] = "done"
    /\ pc' = [pc EXCEPT ![p] = "idle"]
    /\ req' = [req EXCEPT ![p] = NoReq]
    /\ new_id' = [new_id EXCEPT ![p] = 0]
    /\ note' = [note EXCEPT ![p] = {}]
    /\ resp' = [resp EXCEPT ![p] = NoResp]
    /\ absResp' = [absResp EXCEPT ![p] = NoResp]
    /\ seen' = [seen EXCEPT ![p] = 0]
    /\ pend' = [pend EXCEPT ![p] = {}]
    /\ miss' = [miss EXCEPT ![p] = FALSE]
    /\ upd' = [upd EXCEPT ![p] = {}]
    /\ replaced' = [replaced EXCEPT ![p] = {}]
    /\ UNCHANGED <<overflow_checks, id, data, permits>>
    /\ UNCHANGED <<absId, absData, issued, created, deleted, updated,
                   wrapped, calls>>
    /\ UNCHANGED <<scen, ahead, nCreated>>

Next ==
    \E p \in Handlers :
        \/ begin(p)
        \/ lock(p)
        \/ create_note(p)
        \/ delete_note(p)
        \/ update_note(p)
        \/ read_note(p)
        \/ finish(p)

Spec == Init /\ [][Next]_vars

\* The statements of a handler between two awaits, and the end of its task:
\* what the runtime runs once the task is polled.
run(p) ==
    \/ create_note(p)
    \/ delete_note(p)
    \/ update_note(p)
    \/ read_note(p)
    \/ finish(p)

\* The runtime polls every task that can run, and tokio's Mutex hands its
\* permit to the waiters in the order they asked: a task that keeps waiting
\* while the lock is freed again and again gets it.
Fairness == \A p \in Handlers : WF_vars(run(p)) /\ SF_vars(lock(p))

FairSpec == LiveInit /\ [][Next]_vars /\ Fairness

TypeOK ==
    /\ scen.step \in 0..9
    /\ nCreated \in 0..MaxCalls
    /\ id \in U32
    /\ DOMAIN data \subseteq U32
    /\ \A k \in DOMAIN data : data[k] \in Notes
    /\ permits \in 0..1

--------------------------------------------------------------------------
\* Steps of a task, named by the statement it leaves and the one it reaches.

Moves(p, from, to) == pc[p] = from /\ pc'[p] = to

Payload(p) == CHOOSE n \in req[p].note : TRUE

Returned(p, op) == pc[p] = "done" /\ req[p].op = op

--------------------------------------------------------------------------
\* C1: the ids the Creates return are pairwise distinct, and a Create that
\* begins after another Create returned gets a strictly larger id.  At the
\* return of every Create: its id was returned by no Create before, and it is
\* larger than every id that had been returned when this Create began.
C1_UniqueIncreasingIds ==
    [][\A p \in Handlers :
          Moves(p, "c61", "done") =>
              /\ new_id[p] \notin issued
              /\ new_id[p] + 1 > seen[p]]_vars

\* C2: the store is linearizable.  The sequential store serves each call in
\* one step at the moment the handler takes the lock, which lies between the
\* call's begin and its return; every response equals the sequential store's
\* response, and whenever the lock is free the counter and the mapping equal
\* the sequential store's.
C2_Linearizable ==
    /\ permits = 1 => (id = absId /\ data = absData)
    /\ \A p \in Handlers : pc[p] = "done" => resp[p] = absResp[p]

\* C2 witness: a Create has returned its response while the Create of another
\* task, begun before that return, waits for the lock.
C2_Witness ==
    \E p, q \in Handlers :
        /\ Returned(p, "create") /\ resp[p].kind = "created"
        /\ pc[q] = "lock" /\ req[q].op = "create"

\* C3: at most one handler holds the lock, and the statements that read or
\* write the counter and the mapping are run only by the handler that holds
\* it: a task stands at such a statement only with the permit taken, and no
\* two tasks stand there together.
C3_MutualExclusion ==
    /\ Cardinality(Holders) <= 1
    /\ Holders # {} => permits = 0
    /\ Holders = {} => permits = 1

\* C3 witness: one task is inside create_note, between its insert and its
\* store of the counter, while another task waits for the lock.
C3_Witness ==
    \E p, q \in Handlers : pc[p] = "c60" /\ pc[q] = "lock"

\* C4 as claimed: every key present in the mapping is <= next_id (read in
\* the states in which no handler is inside its critical section).
C4_KeysBoundedByCounter ==
    permits = 1 => \A k \in DOMAIN data : k <= id

\* C4 as amended: whenever the lock is free, a key of the mapping that is
\* greater than next_id was last written by an Update, or was written by a
\* Create before the counter wrapped around.
C4_KeysAboveCounterAreExternal ==
    permits = 1 =>
        \A k \in DOMAIN data : k > id => (updated[k] # {} \/ wrapped)

\* C4 witness: with the lock free and the counter never wrapped, the mapping
\* holds the key of the last Create and, above the counter, a key that an
\* Update wrote.
C4_Witness ==
    /\ permits = 1 /\ ~wrapped
    /\ id \in DOMAIN data /\ id \in issued
    /\ \E k \in DOMAIN data : k > id /\ updated[k] # {}

\* C5: a Read(id) that begins after Create(note) returned id, with no
\* Update(id, _) and no Delete(id) taking effect in between, succeeds and
\* returns note.
C5_ReadAfterCreate ==
    \A p \in Handlers :
        (Returned(p, "read") /\ pend[p] # {}) => resp[p] = NoteResp(pend[p])

\* C6: once Delete(id) has returned, and until an Update(id, _) or a Create
\* inserts at id, the mapping has no entry at id and every Read(id) that
\* begins fails with NotFound.
C6_ReadAfterDelete ==
    /\ \A k \in U32 : deleted[k] => k \notin DOMAIN data
    /\ \A p \in Handlers :
          (Returned(p, "read") /\ miss[p]) => resp[p] = NotFoundResp

\* C6 witness: a Read of an id that a Create had returned and a Delete then
\* removed has returned.
C6_Witness ==
    \E p \in Handlers :
        Returned(p, "read") /\ miss[p] /\ req[p].id \in issued

\* C7: Update is an upsert.  Every Update returns success; from its insert
\* until the next write to id the mapping holds exactly its note at id; and a
\* Read(id) that looks id up in that time returns that note.
C7_UpdateUpsert ==
    /\ \A k \in U32 : updated[k] # {} => Get(data, k) = updated[k]
    /\ \A p \in Handlers : Returned(p, "update") => resp[p] = UpdatedResp
    /\ \A p \in Handlers :
          (Returned(p, "read") /\ upd[p] # {}) => resp[p] = NoteResp(upd[p])

\* C7 witness: a Read has returned the note of an Update at an id that no
\* Create ever returned (the counter never reached it): the Update made the
\* entry.
C7_Witness ==
    \E p \in Handlers :
        /\ Returned(p, "read") /\ upd[p] # {}
        /\ req[p].id \notin issued /\ req[p].id > id /\ ~wrapped

\* C8: Delete is total and idempotent.  A delete_note that holds the lock can
\* always take its next step; its removal leaves no entry at id; when there
\* was no entry at id it leaves the mapping and the counter as they were, and
\* removing id once more changes nothing; its return answers success and
\* changes neither.
C8_DeleteIdempotent ==
    /\ [](\A p \in Handlers :
             pc[p] \in {"d66", "d67"} => ENABLED delete_note(p))
    /\ [][\A p \in Handlers :
             /\ Moves(p, "d66", "d67") =>
                   /\ req[p].id \notin DOMAIN data'
                   /\ req[p].id \notin DOMAIN data => (data' = data /\ id' = id)
                   /\ DeleteData(data', req[p].id) = data'
                   /\ id' = id
             /\ pc[p] = "d67" /\ pc'[p] # "d67" =>
                   /\ resp'[p] = DeletedResp(req[p].id)
                   /\ data' = data /\ id' = id]_vars

\* C8 witness: a second Delete(id) in a row has run its removal: an earlier
\* Delete(id) returned and nothing was inserted at id since.
C8_Witness ==
    \E p \in Handlers : pc[p] = "d67" /\ deleted[req[p].id] /\ data # EmptyMap

\* C9: read_note answers NotFound exactly when the mapping has no entry at id
\* when it looks the id up, holding the lock, and otherwise answers the note
\* stored at id; no other handler answers NotFound.
C9_ReadNotFoundIffAbsent ==
    [][\A p \in Handlers :
          /\ pc[p] = "r85" /\ pc'[p] # "r85" =>
                IF req[p].id \in DOMAIN data
                THEN pc'[p] = "r86" /\ note'[p] = {data[req[p].id]}
                ELSE pc'[p] = "done" /\ resp'[p] = NotFoundResp
          /\ pc[p] = "r86" /\ pc'[p] # "r86" =>
                /\ req[p].id \in DOMAIN data
                /\ resp'[p] = NoteResp({data[req[p].id]})
          /\ resp'[p].kind = "notfound" => req'[p].op = "read"]_vars

\* C9 witness: a Read has answered NotFound for an id that a Create had
\* returned (written, then deleted).
C9_Witness ==
    \E p \in Handlers :
        Returned(p, "read") /\ resp[p] = NotFoundResp /\ req[p].id \in issued

\* C10: Create never fails.  In every state a create_note that holds the lock
\* goes on from `state.id + 1` to its insert, stores the payload under the
\* new id, raises the counter by exactly 1 and returns the new id.
C10_CreateNeverFails ==
    [][\A p \in Handlers :
          /\ pc[p] = "c58" /\ pc'[p] # "c58" => pc'[p] = "c59"
          /\ Moves(p, "c60", "c61") =>
                /\ id' = id + 1
                /\ Get(data', id') = req[p].note
          /\ pc[p] = "c61" /\ pc'[p] # "c61" => resp'[p] = CreatedResp(id)]_vars

\* C11: next_id never decreases and only Create changes it.  Every step that
\* changes the counter is create_note's store of it, and that store makes the
\* counter larger: the id a Create returns is fresh and larger than the
\* counter it found, also after a Delete of the latest id.
C11_CounterOnlyGrows ==
    [][/\ id' # id => \E p \in Handlers : Moves(p, "c60", "c61")
       /\ \A p \in Handlers : Moves(p, "c60", "c61") => id' > id
       /\ \A p \in Handlers :
             req[p].op = "create" /\ pc[p] = "c58" /\ pc'[p] # "c58" =>
                 pc'[p] = "c59" /\ new_id'[p] > id]_vars

\* C12: no operation blocks for ever.  Under the fairness of FairSpec every
\* handler that has begun gets the lock and returns its response, and no
\* state in which a handler has begun and not returned is a dead end.
C12_EveryCallReturns ==
    /\ [](\A p \in Handlers :
             pc[p] \notin {"idle", "done"} => ENABLED Next)
    /\ \A p \in Handlers : (pc[p] = "lock") ~> (pc[p] = "done")

\* C12 witness: an Update has returned while the Read of another task, begun
\* before that return, still waits for the lock the Update held.
C12_Witness ==
    \E p, q \in Handlers :
        /\ Returned(p, "update")
        /\ pc[q] = "lock" /\ req[q].op = "read"

\* C13: on the fresh store the first Create returns id 1 and stores its note
\* at key 1; an Update(1, n2) that follows makes key 1 hold n2; a Delete(1)
\* that follows removes key 1, and the Read(1) after it answers NotFound.
\* scen follows exactly the runs that make these four calls one after the
\* other and no other call.
C13_TestScenario ==
    /\ scen.step = 2 =>
          /\ id = 1
          /\ DOMAIN data = {1} /\ Get(data, 1) = scen.n1
          /\ \A p \in Handlers : pc[p] = "done" => resp[p] = CreatedResp(1)
    /\ scen.step = 4 =>
          /\ Get(data, 1) = scen.n2
          /\ \A p \in Handlers : pc[p] = "done" => resp[p] = UpdatedResp
    /\ scen.step = 6 =>
          /\ 1 \notin DOMAIN data
          /\ \A p \in Handlers : pc[p] = "done" => resp[p] = DeletedResp(1)
    /\ scen.step = 8 =>
          /\ 1 \notin DOMAIN data
          /\ \A p \in Handlers : pc[p] = "done" => resp[p] = NotFoundResp

\* C13 witness: the four calls of the scenario have returned, the Update
\* having carried a note other than the Create's.
C13_Witness ==
    /\ scen.step = 8
    /\ scen.n1 # scen.n2
    /\ \E p \in Handlers : Returned(p, "read") /\ resp[p] = NotFoundResp

\* C14: every handler has given the lock back by the time it returns, on every
\* path (the early NotFound exit of read_note and the unwind of a panicking
\* create_note included): a step that returns a response leaves one permit
\* more than it found, and whenever no handler is between its lock and its
\* return the lock is free.
C14_LockReleasedOnReturn ==
    [][/\ \A p \in Handlers :
             pc[p] \in HeldPcs /\ pc'[p] = "done" => permits' = permits + 1
       /\ (\A p \in Handlers : pc'[p] \in {"idle", "lock", "done"}) =>
             permits' = 1]_vars

\* C14 witness: a Read has left by its NotFound exit, the lock is free and
\* another call is waiting to take it.
C14_Witness ==
    \E p, q \in Handlers :
        /\ Returned(p, "read") /\ resp[p] = NotFoundResp
        /\ pc[q] = "lock"
        /\ permits = 1

\* C15: an Update can write a key above the counter without advancing the
\* counter, and the Create that later allocates that key returns it and puts
\* its own note in the place of the Update's.  As a property of every step:
\* update_note's insert stores its note at its key, any key, and leaves the
\* counter alone; when create_note's insert meets a key that holds the note
\* an Update wrote above the counter, the key holds the Create's note
\* afterwards; and
\* create_note returns the key it inserted at.  That the collision happens is
\* C15_Witness.
C15_CreateOverwritesUpdate ==
    [][\A p \in Handlers :
          /\ Moves(p, "u76", "u77") =>
                /\ id' = id
                /\ Get(data', req[p].id) = req[p].note
          /\ Moves(p, "c59", "c60") /\ new_id[p] \in ahead =>
                /\ Get(data, new_id[p]) = updated[new_id[p]]
                /\ replaced'[p] = Get(data, new_id[p])
                /\ Get(data', new_id[p]) = req[p].note
          /\ Moves(p, "c61", "done") =>
                /\ resp'[p] = CreatedResp(new_id[p])
                /\ Get(data, new_id[p]) = req[p].note]_vars

\* C15 witness: a Create has returned a key that an Update had written when
\* the counter stood below it, the counter has never wrapped, and the key now
\* holds the Create's note, which is not the Update's.
C15_Witness ==
    \E p \in Handlers :
        /\ Returned(p, "create")
        /\ ~wrapped
        /\ replaced[p] # {}
        /\ replaced[p] # req[p].note
        /\ resp[p] = CreatedResp(id)
        /\ Get(data, id) = req[p].note

\* C16: an operation changes at most one entry of the mapping.  Read changes
\* neither the mapping nor the counter; Update(k, n) and Delete(k) leave every
\* key other than k as it was, and Create every key other than the id it
\* allocated; Update and Delete leave the counter as it was; no other step of
\* a handler touches the mapping.
C16_Frame ==
    [][\A p \in Handlers :
          LET Others(k) == \A x \in U32 : x # k => Get(data', x) = Get(data, x)
          IN  /\ pc[p] \in {"r85", "r86"} /\ pc'[p] # pc[p] =>
                    data' = data /\ id' = id
              /\ Moves(p, "u76", "u77") => Others(req[p].id) /\ id' = id
              /\ Moves(p, "d66", "d67") => Others(req[p].id) /\ id' = id
              /\ Moves(p, "c59", "c60") => Others(new_id[p])
              /\ pc'[p] # pc[p] /\ pc[p] \notin {"u76", "d66", "c59"} =>
                    data' = data]_vars

\* C16 witness: a Delete has just run its remove, its key is not in the
\* mapping, and the note that a Create stored at another key is still there.
C16_Witness ==
    \E p \in Handlers, x \in DOMAIN data :
        /\ pc[p] = "d67"
        /\ x # req[p].id
        /\ created[x] = {data[x]}
        /\ req[p].id \notin DOMAIN data

\* C17: whenever the lock is free and the 32-bit counter has not overflowed,
\* the counter equals the number of Creates that have returned an id; the id
\* a Create returns is the counter's value right after that Create; and no
\* Create ever returns id 0.
C17_CounterCountsCreates ==
    /\ permits = 1 /\ ~wrapped => id = nCreated
    /\ \A p \in Handlers :
          Returned(p, "create") /\ resp[p] # PanicResp =>
              /\ resp[p] = CreatedResp(id)
              /\ resp[p].id # 0

==========================================================================
